---- MODULE Spec2Model ----
(***************************************************************************)
(* dvid-import / raveler-import: a driver (main) that validates a          *)
(* configuration and then walks the destination volume slab by slab,       *)
(* calling processSlab for each slab start.  Two variants of the program   *)
(* exist:                                                                  *)
(*   "tile"   : src/main.go           (one directory, 1024x1024 tiles)     *)
(*   "stitch" : src/unnamed/part_000  (several directories, whole slabs)   *)
(* Buffers are sequences of bytes (1-based here, 0-based in the source).   *)
(***************************************************************************)
EXTENDS Integers, Sequences, FiniteSets, TLC

\* ---------------------------------------------------------------- bounds
\* Largest Z coordinate of a configuration (volume and directories).
MaxZ == 4
\* Largest volume BegZ.
MaxBegZ == 1
\* Largest EndZ - BegZ of a directory.
MaxSpan == 2
\* Largest -blocksize / Thickness.
MaxThick == 2
\* Largest SizeX and SizeY.
MaxSizeX == 3
MaxSizeY == 2
\* Largest number of entries of Directories.
MaxDirs == 2
\* Largest number of processSlab calls of one run: a run with blocksize 1
\* makes MaxZ + 1 calls, and only a run with blocksize 0, whose loop does
\* not advance, is cut short by it.
MaxCalls == MaxZ + 1
\* The edge of a tile.  The source has 1024 (main.go:170); the model keeps
\* the code's arithmetic and scales the edge so that buffers stay small.
TileEdge == 2

\* ---------------------------------------------------- program constants
\* Bytes per voxel: the literal 8 of xBytes, sxBytes, sliceBytes.
BytesPerVoxel == 8

sendSize == TileEdge

VARIABLES
  variant,    \* which program runs: "tile" or "stitch"
  blocksize,  \* flag -blocksize
  dryrun,     \* flag -dryrun
  config,     \* the Config read from the JSON file
  pc,         \* position of main: "start", "loop", "done", "exit"
  slabBegZ,   \* loop variable of main
  bytebuf,    \* stitch variant: the slab buffer main allocates once
  log,        \* history of file opens and HTTP POSTs, in order
  calls       \* history of processSlab calls: slab start, result, buffer

vars == <<variant, blocksize, dryrun, config, pc, slabBegZ, bytebuf, log, calls>>

\* ------------------------------------------------------------- helpers
Min(a, b) == IF a < b THEN a ELSE b
Max(a, b) == IF a > b THEN a ELSE b

\* make([]byte, n): n zero bytes.
make(n) == [k \in 1..n |-> 0]

\* ------------------------------------------------------------ the files
\* What os.Open, gzip.NewReader and ioutil.ReadAll can give for one
\* artifact: it is missing, its gzip stream is bad, or it decompresses to
\* len bytes.
NoFile == [exists |-> FALSE, gzipOK |-> FALSE, len |-> 0]
BadGzip == [exists |-> TRUE, gzipOK |-> FALSE, len |-> 0]
Files(expected) ==
  {NoFile, BadGzip} \cup
  {[exists |-> TRUE, gzipOK |-> TRUE, len |-> l] :
      l \in {expected - 1, expected, expected + 1} \cap Nat}

\* Decompressed content of the artifact of directory d for slab start z:
\* every byte is non-zero and depends on the directory, the slab and the
\* position.
FileData(d, z, len) ==
  [k \in 1..len |-> 1 + (((k - 1) + 97 * d + 31 * z) % 255)]

\* What the sink answers to one POST.
SinkAnswers == {"ok", "transport", "status"}

\* ------------------------------------------------------------ the events
NoBody == [kind |-> "none", bytes |-> <<>>, file |-> NoFile]

OpenEv(d, z, f) ==
  [op |-> "open", n |-> 0, dir |-> d, z |-> z, file |-> f,
   ox |-> 0, oy |-> 0, w |-> 0, h |-> 0, body |-> NoBody]

PostEv(d, z, ox, oy, w, h, body) ==
  [op |-> "post", n |-> 0, dir |-> d, z |-> z, file |-> NoFile,
   ox |-> ox, oy |-> oy, w |-> w, h |-> h, body |-> body]

Ret(err, events, buf) == [err |-> err, events |-> events, buf |-> buf]

\* Faulty variant of Send: the POST is made whatever -dryrun says.
SendAlways(dry, ans, ev, events, buf) ==
  Ret(IF ans = "ok" THEN "nil" ELSE ans, Append(events, ev), buf)

\* http.Post and the status check that follows it, under "if !*dryrun".
Send(dry, ans, ev, events, buf) ==
  IF ~dry
    THEN Ret(IF ans = "ok" THEN "nil" ELSE ans, Append(events, ev), buf)
    ELSE Ret("nil", events, buf)

\* ======================================================= tile variant
\* The X span in voxels of the tile at ox: sendSize, clipped at SizeX.
tileSpan(cfg, ox) ==
  IF ox + sendSize > cfg.SizeX
    THEN sendSize - (ox + sendSize - cfg.SizeX)
    ELSE sendSize

\* endY of the tile band at oy: oy + sendSize, clipped at SizeY.
tileEndY(cfg, oy) ==
  IF oy + sendSize > cfg.SizeY THEN cfg.SizeY ELSE oy + sendSize

\* The POST buffer of the tile at (ox, oy): sxyzBytes zero bytes, then for
\* every sz and every sy in [oy, endY) the copy of span bytes from
\* data[si:] to bytebuf[bi:], si = sz*xyBytes + sy*xBytes and
\* bi = sz*sxyBytes + sy*sxBytes.  A later copy overwrites an earlier one.
tileBuf(cfg, bs, data, ox, oy) ==
  LET xBytes == cfg.SizeX * BytesPerVoxel
      xyBytes == xBytes * cfg.SizeY
      sxBytes == sendSize * BytesPerVoxel
      sxyBytes == sxBytes * sendSize
      sxyzBytes == sxyBytes * bs
      endY == tileEndY(cfg, oy)
      span == tileSpan(cfg, ox) * BytesPerVoxel
      si(sz, sy) == sz * xyBytes + sy * xBytes
      bi(sz, sy) == sz * sxyBytes + sy * sxBytes
      rows == (0..(bs - 1)) \X (oy..(endY - 1))
      writers(k0) == {p \in rows : bi(p[1], p[2]) <= k0 /\ k0 < bi(p[1], p[2]) + span}
      rank(p) == p[1] * (cfg.SizeY + 1) + p[2]
      last(W) == CHOOSE p \in W : \A q \in W : rank(q) <= rank(p)
  IN [k \in 1..sxyzBytes |->
        LET W == writers(k - 1)
        IN IF W = {} THEN 0
           ELSE LET p == last(W)
                IN data[si(p[1], p[2]) + ((k - 1) - bi(p[1], p[2])) + 1]]

\* processSlab of src/main.go from directory i on.  The tile loops return
\* at the end of their first iteration, the tile at ox = 0, oy = 0.
RECURSIVE tileDirs(_, _, _, _, _, _, _)
tileDirs(cfg, bs, dry, z, files, ans, i) ==
  IF i > Len(cfg.Directories) THEN Ret("nil", <<>>, <<>>)
  ELSE
    LET dir == cfg.Directories[i]
        slabEndZ == z + bs - 1
        xyzBytes == cfg.SizeX * BytesPerVoxel * cfg.SizeY * bs
        f == files[i]
        opened == <<OpenEv(i, z, f)>>
    IN IF z > dir.EndZ \/ slabEndZ < dir.BegZ
         THEN tileDirs(cfg, bs, dry, z, files, ans, i + 1)
       ELSE IF ~f.exists THEN Ret("open", opened, <<>>)
       ELSE IF ~f.gzipOK THEN Ret("gzip", opened, <<>>)
       ELSE IF f.len # xyzBytes THEN Ret("size", opened, <<>>)
       ELSE IF cfg.SizeY <= 0 \/ cfg.SizeX <= 0
         THEN LET rest == tileDirs(cfg, bs, dry, z, files, ans, i + 1)
              IN Ret(rest.err, opened \o rest.events, <<>>)
       ELSE
         LET data == FileData(i, z, f.len)
             buf == tileBuf(cfg, bs, data, 0, 0)
             ev == PostEv(i, z, 0, 0, tileSpan(cfg, 0), tileEndY(cfg, 0) - 0,
                          [kind |-> "buf", bytes |-> buf, file |-> NoFile])
         IN Send(dry, ans, ev, opened, <<>>)

processSlab_tile(cfg, bs, dry, z, files, ans) ==
  tileDirs(cfg, bs, dry, z, files, ans, 1)

\* ===================================================== stitch variant
\* Faulty variant of zeroBuf: the buffer is left as the last slab left it.
keepBuf(buf) == buf

\* The loop at the top of processSlab: every byte of bytebuf set to 0.
zeroBuf(buf) == [k \in 1..Len(buf) |-> 0]

\* Faulty variant of copyPlane: the source plane is read from the start of
\* data, copy(bytebuf[z:z+sliceBytes], data[0:sliceBytes]).
copyPlaneFromStart(buf, data, volZ, z0, sliceBytes) ==
  LET z == (volZ - z0) * sliceBytes
  IN [k \in 1..Len(buf) |->
        IF z < k /\ k <= z + sliceBytes THEN data[k - z] ELSE buf[k]]

\* One iteration of the copy loop: with z = (volZ - slabBegZ)*sliceBytes,
\* copy(bytebuf[z:z+sliceBytes], data[z:z+sliceBytes]).
copyPlane(buf, data, volZ, z0, sliceBytes) ==
  LET z == (volZ - z0) * sliceBytes
  IN [k \in 1..Len(buf) |->
        IF z < k /\ k <= z + sliceBytes THEN data[k] ELSE buf[k]]

\* The copy loop "for volZ := begZ; volZ <= endZ; volZ++".
RECURSIVE copyPlanes(_, _, _, _, _, _)
copyPlanes(buf, data, volZ, endZ, z0, sliceBytes) ==
  IF volZ > endZ THEN buf
  ELSE copyPlanes(copyPlane(buf, data, volZ, z0, sliceBytes),
                  data, volZ + 1, endZ, z0, sliceBytes)

\* processSlab of src/unnamed/part_000 from directory i on, with the
\* buffer and the zfilled count the earlier directories left.
RECURSIVE stitchDirs(_, _, _, _, _, _, _, _, _, _)
stitchDirs(cfg, bs, dry, z0, files, ans, i, buf, zfilled, events) ==
  IF i > Len(cfg.Directories) THEN Ret("nil", events, buf)
  ELSE
    LET dir == cfg.Directories[i]
        sliceBytes == cfg.SizeX * cfg.SizeY * BytesPerVoxel
        slabEndZ == z0 + bs - 1
        begZ == Max(z0, dir.BegZ)
        endZ == Min(slabEndZ, dir.EndZ)
        f == files[i]
        opened == Append(events, OpenEv(i, z0, f))
    IN IF z0 > dir.EndZ \/ slabEndZ < dir.BegZ
         THEN stitchDirs(cfg, bs, dry, z0, files, ans, i + 1, buf, zfilled, events)
       ELSE IF ~f.exists THEN Ret("open", opened, buf)
       ELSE IF begZ = z0 /\ endZ = slabEndZ
         \* the file itself, still compressed, is the body of the POST
         THEN Send(dry, ans,
                   PostEv(i, z0, 0, 0, cfg.SizeX, cfg.SizeY,
                          [kind |-> "gz", bytes |-> <<>>, file |-> f]),
                   opened, buf)
       ELSE IF ~f.gzipOK THEN Ret("gzip", opened, buf)
       ELSE IF f.len # sliceBytes * bs THEN Ret("size", opened, buf)
       ELSE
         LET data == FileData(i, z0, f.len)
             filled == copyPlanes(buf, data, begZ, endZ, z0, sliceBytes)
             zf == zfilled + (IF endZ >= begZ THEN endZ - begZ + 1 ELSE 0)
         IN IF zf = bs
              THEN Send(dry, ans,
                        PostEv(i, z0, 0, 0, cfg.SizeX, cfg.SizeY,
                               [kind |-> "buf", bytes |-> filled, file |-> NoFile]),
                        opened, filled)
              ELSE stitchDirs(cfg, bs, dry, z0, files, ans, i + 1, filled, zf, opened)

processSlab_stitch(cfg, bs, dry, buf, z0, files, ans) ==
  stitchDirs(cfg, bs, dry, z0, files, ans, 1, zeroBuf(buf), 0, <<>>)

\* ------------------------------------------------------------ dispatch
processSlab(v, cfg, bs, dry, buf, z0, files, ans) ==
  IF v = "tile"
    THEN processSlab_tile(cfg, bs, dry, z0, files, ans)
    ELSE processSlab_stitch(cfg, bs, dry, buf, z0, files, ans)

\* ================================================================ main
\* The loop over config.Directories with maxZ: FALSE when it exits.
RECURSIVE dirsInOrder(_, _, _)
dirsInOrder(dirs, i, maxZ) ==
  IF i > Len(dirs) THEN TRUE
  ELSE IF dirs[i].BegZ <= maxZ THEN FALSE
  ELSE dirsInOrder(dirs, i + 1, dirs[i].EndZ)

\* Everything main checks before its slab loop.
configAccepted(cfg, bs) ==
  /\ ~(Len(cfg.Directories) < 1)
  /\ ~(cfg.Thickness # bs)
  /\ dirsInOrder(cfg.Directories, 1, 0)

\* Faulty variant of afterSlab: the error is reported and the loop goes on.
afterSlabContinue(err) == "loop"

\* What main does with the result of processSlab.
afterSlab(err) == IF err # "nil" THEN "exit" ELSE "loop"

\* ------------------------------------------------------------- inputs
\* A directory covers BegZ..EndZ, at most MaxSpan + 1 planes.  One plane
\* (EndZ = BegZ) is what main reports as a bad Z range.
SlabDirs ==
  {d \in [BegZ : 0..MaxZ, EndZ : 0..MaxZ] :
      d.BegZ <= d.EndZ /\ d.EndZ <= d.BegZ + MaxSpan}
DirLists == UNION {[1..n -> SlabDirs] : n \in 0..MaxDirs}
Configs ==
  [SizeX : 1..MaxSizeX, SizeY : 1..MaxSizeY, Thickness : 0..MaxThick,
   BegZ : 0..MaxBegZ, EndZ : 0..MaxZ, Directories : DirLists]

Init ==
  /\ variant \in {"tile", "stitch"}
  /\ blocksize \in 0..MaxThick
  /\ dryrun \in BOOLEAN
  /\ config \in Configs
  /\ pc = "start"
  /\ slabBegZ = 0
  /\ bytebuf = <<>>
  /\ log = <<>>
  /\ calls = <<>>

\* main up to the slab loop, the configuration rejected: os.Exit(1).
RejectConfig ==
  /\ pc = "start"
  /\ ~configAccepted(config, blocksize)
  /\ pc' = "exit"
  /\ UNCHANGED <<variant, blocksize, dryrun, config, slabBegZ, bytebuf, log, calls>>

\* main up to the slab loop, the configuration accepted.
AcceptConfig ==
  /\ pc = "start"
  /\ configAccepted(config, blocksize)
  /\ pc' = "loop"
  /\ slabBegZ' = config.BegZ
  /\ bytebuf' = IF variant = "stitch"
                  THEN make(config.SizeX * config.SizeY * config.Thickness * BytesPerVoxel)
                  ELSE <<>>
  /\ UNCHANGED <<variant, blocksize, dryrun, config, log, calls>>

\* The artifacts one processSlab call can find: one per directory.  A
\* directory the slab window misses is never opened, so its file is left out.
SlabFiles(cfg, bs, z0) ==
  LET expected == cfg.SizeX * cfg.SizeY * BytesPerVoxel * bs
      missed(d) == z0 > d.EndZ \/ z0 + bs - 1 < d.BegZ
      D == 1..Len(cfg.Directories)
  IN {f \in [D -> Files(expected)] :
        \A i \in D : missed(cfg.Directories[i]) => f[i] = NoFile}

\* One iteration of the slab loop: processSlab and the test of its result.
ProcessSlab ==
  /\ pc = "loop"
  /\ slabBegZ <= config.EndZ
  /\ Len(calls) < MaxCalls
  /\ \E r \in {processSlab(variant, config, blocksize, dryrun, bytebuf,
                           slabBegZ, files, ans) :
                 files \in SlabFiles(config, blocksize, slabBegZ),
                 ans \in SinkAnswers} :
       LET n == Len(calls) + 1
       IN /\ log' = log \o [j \in 1..Len(r.events) |-> [r.events[j] EXCEPT !.n = n]]
          /\ calls' = Append(calls, [z |-> slabBegZ, err |-> r.err, buf |-> r.buf])
          /\ bytebuf' = r.buf
          /\ pc' = afterSlab(r.err)
          /\ slabBegZ' = IF afterSlab(r.err) = "loop"
                           THEN slabBegZ + blocksize ELSE slabBegZ
  /\ UNCHANGED <<variant, blocksize, dryrun, config>>

\* The slab loop ends and main returns.
Finish ==
  /\ pc = "loop"
  /\ ~(slabBegZ <= config.EndZ)
  /\ pc' = "done"
  /\ UNCHANGED <<variant, blocksize, dryrun, config, slabBegZ, bytebuf, log, calls>>

Next == RejectConfig \/ AcceptConfig \/ ProcessSlab \/ Finish

Spec == Init /\ [][Next]_vars

\* ============================================================== claims
Opens(n) == {j \in 1..Len(log) : log[j].op = "open" /\ log[j].n = n}
Posts(n) == {j \in 1..Len(log) : log[j].op = "post" /\ log[j].n = n}
AllPosts == {j \in 1..Len(log) : log[j].op = "post"}
CeilDiv(a, b) == (a + b - 1) \div b
xyzExpected == config.SizeX * config.SizeY * BytesPerVoxel * blocksize

\* The directories whose range [BegZ, EndZ] holds plane z.
Covering(z) ==
  {i \in 1..Len(config.Directories) :
      config.Directories[i].BegZ <= z /\ z <= config.Directories[i].EndZ}

\* The bytes (1-based) of plane p of a slab buffer.
PlaneBytes(p) ==
  LET sliceBytes == config.SizeX * config.SizeY * BytesPerVoxel
  IN (p * sliceBytes + 1)..((p + 1) * sliceBytes)

\* C1: tile variant, dry-run off, blocksize > 0: for every slab that
\* processSlab read an artifact for and handled without error, the tiles
\* POSTed for the slab partition [0,SizeX) x [0,SizeY): every tile has a
\* positive area, every voxel column (x, y) lies in exactly one tile, and
\* there are ceil(SizeX/sendSize) * ceil(SizeY/sendSize) POSTs.
C1_FullTileSequence ==
  (variant = "tile" /\ ~dryrun /\ blocksize > 0) =>
    \A n \in 1..Len(calls) :
      (calls[n].err = "nil" /\ Opens(n) # {}) =>
        /\ \A j \in Posts(n) : log[j].w > 0 /\ log[j].h > 0
        /\ \A x \in 0..(config.SizeX - 1), y \in 0..(config.SizeY - 1) :
             Cardinality({j \in Posts(n) :
                 /\ log[j].ox <= x /\ x < log[j].ox + log[j].w
                 /\ log[j].oy <= y /\ y < log[j].oy + log[j].h}) = 1
        /\ Cardinality(Posts(n)) =
             CeilDiv(config.SizeX, sendSize) * CeilDiv(config.SizeY, sendSize)

\* C2: tile variant, blocksize > 0: every POSTed tile buffer has exactly
\* w*h*Thickness*8 bytes, and its byte ((z*h + (y-oy))*w + (x-ox))*8 + b is
\* the slab byte ((z*SizeY + y)*SizeX + x)*8 + b.
C2_TileBufferLayout ==
  (variant = "tile" /\ blocksize > 0) =>
    \A j \in AllPosts :
      LET e == log[j]
          tile == e.body.bytes
          slab == FileData(e.dir, e.z, xyzExpected)
      IN /\ Len(tile) = e.w * e.h * config.Thickness * BytesPerVoxel
         /\ \A z \in 0..(blocksize - 1), y \in e.oy..(e.oy + e.h - 1),
               x \in e.ox..(e.ox + e.w - 1), b \in 0..(BytesPerVoxel - 1) :
              tile[((z * e.h + (y - e.oy)) * e.w + (x - e.ox)) * BytesPerVoxel + b + 1]
                = slab[((z * config.SizeY + y) * config.SizeX + x) * BytesPerVoxel + b + 1]

\* The calls of the stitch variant whose slab window meets two or more
\* directory ranges and that returned nil.
Straddling ==
  {n \in 1..Len(calls) :
     /\ variant = "stitch" /\ blocksize > 0 /\ calls[n].err = "nil"
     /\ Cardinality({i \in 1..Len(config.Directories) :
          \E z \in calls[n].z..(calls[n].z + blocksize - 1) : i \in Covering(z)}) >= 2}

\* C3: stitch variant: when a slab window straddles two source ranges,
\* every plane of the window that lies in a source range lies in exactly
\* one, and the assembled buffer holds, at that plane's offset, the bytes
\* the artifact of that source has at the same offset.
C3_StraddlePlanes ==
  \A n \in Straddling :
    \A p \in 0..(blocksize - 1) :
      LET z == calls[n].z + p
      IN Covering(z) # {} =>
           /\ Cardinality(Covering(z)) = 1
           /\ \A i \in Covering(z) : \A k \in PlaneBytes(p) :
                calls[n].buf[k] = FileData(i, calls[n].z, xyzExpected)[k]

\* A straddling slab of two ranges of more than one plane each was
\* assembled and POSTed.
C3_Witness ==
  \E n \in Straddling :
    /\ \A i \in 1..Len(config.Directories) :
         config.Directories[i].EndZ > config.Directories[i].BegZ
    /\ \E j \in Posts(n) : log[j].body.bytes = calls[n].buf
    /\ Len(calls[n].buf) > 0

\* C4: stitch variant: after every processSlab call the slab buffer has
\* only zero bytes in every plane that no source range covers, whatever
\* the earlier calls left in the buffer.
C4_UncoveredPlanesZero ==
  variant = "stitch" =>
    \A n \in 1..Len(calls) :
      /\ (n = Len(calls) => bytebuf = calls[n].buf)
      /\ Len(calls[n].buf) = xyzExpected
      /\ \A p \in 0..(blocksize - 1) :
           Covering(calls[n].z + p) = {} =>
             \A k \in PlaneBytes(p) : calls[n].buf[k] = 0

\* A slab with an uncovered plane follows a slab that filled that plane.
C4_Witness ==
  /\ variant = "stitch"
  /\ \E n \in 2..Len(calls) : \E p \in 0..(blocksize - 1) :
       /\ calls[n].err = "nil"
       /\ Covering(calls[n].z + p) = {}
       /\ \E k \in PlaneBytes(p) : calls[n - 1].buf[k] # 0
       /\ \E k \in 1..Len(calls[n].buf) : calls[n].buf[k] # 0

\* C5: stitch variant, dry-run off: every slab start the driver iterates
\* and processSlab handles without error gives exactly one POST, also when
\* fewer than Thickness planes were filled.
C5_PartialSlabSent ==
  (variant = "stitch" /\ ~dryrun /\ blocksize > 0) =>
    \A n \in 1..Len(calls) :
      calls[n].err = "nil" => Cardinality(Posts(n)) = 1

\* C6: both variants: no POST is made for a slab for which an artifact was
\* opened whose decompressed length is not SizeX*SizeY*8*Thickness.
C6_SizeGate ==
  \A j \in AllPosts : \A o \in Opens(log[j].n) :
    (log[o].file.exists /\ log[o].file.gzipOK) =>
       log[o].file.len = config.SizeX * config.SizeY * BytesPerVoxel * config.Thickness

\* The configuration errors of the three kinds: Thickness is not the block
\* size, a directory begins at or before the end of the one before it, a
\* directory has EndZ <= BegZ.
ConfigError ==
  \/ config.Thickness # blocksize
  \/ \E i \in 2..Len(config.Directories) :
        config.Directories[i].BegZ <= config.Directories[i - 1].EndZ
  \/ \E i \in 1..Len(config.Directories) :
        config.Directories[i].EndZ <= config.Directories[i].BegZ

\* C7: both variants: with a configuration error of one of the three
\* kinds, processSlab is never called, no file is opened, no POST is made.
C7_ConfigErrorsFatal ==
  ConfigError => (calls = <<>> /\ log = <<>>)

\* C8: both variants: a processSlab call that returns an error is the
\* last one: main has exited, no later slab start was processed and no
\* file was opened or POST made after it; and the log of opens and POSTs
\* only ever grows at its end.
C8_FailFast ==
  /\ [](\A k \in 1..Len(calls) :
          calls[k].err # "nil" =>
            /\ k = Len(calls)
            /\ pc = "exit"
            /\ \A j \in 1..Len(log) : log[j].n <= k)
  /\ [][/\ Len(log') >= Len(log)
        /\ SubSeq(log', 1, Len(log)) = log
        /\ (pc = "exit" => log' = log /\ calls' = calls)]_vars

\* After a POST for an earlier slab, a later slab failed and slab starts
\* were still left.
C8_Witness ==
  /\ pc = "exit"
  /\ Len(calls) >= 2
  /\ calls[Len(calls)].err # "nil"
  /\ Posts(1) # {}
  /\ calls[Len(calls)].z + blocksize <= config.EndZ

\* The opens among the events of one processSlab call.
OpensOf(events) == SelectSeq(events, LAMBDA e : e.op = "open")

\* C9: both variants: with -dryrun no POST is ever in the log, and from
\* every state of the slab loop a dry processSlab call does what a call
\* with dry-run off and a sink answering OK does: same files opened, same
\* result, same buffer; only the POST is missing.
C9_DryRun ==
  /\ dryrun => AllPosts = {}
  /\ (pc = "loop" /\ slabBegZ <= config.EndZ) =>
       \A files \in SlabFiles(config, blocksize, slabBegZ), ans \in SinkAnswers :
         LET dry == processSlab(variant, config, blocksize, TRUE, bytebuf,
                                slabBegZ, files, ans)
             wet == processSlab(variant, config, blocksize, FALSE, bytebuf,
                                slabBegZ, files, "ok")
         IN /\ dry.err = wet.err
            /\ dry.buf = wet.buf
            /\ dry.events = OpensOf(wet.events)
            /\ afterSlab(dry.err) = afterSlab(wet.err)

\* A dry run read artifacts for two slabs or more and came to its end.
C9_Witness ==
  /\ dryrun
  /\ pc = "done"
  /\ Len(calls) >= 2
  /\ Opens(1) # {} /\ Opens(2) # {}

\* C10: both variants: in a run of an accepted configuration in which no
\* processSlab call failed, call k is for slab start BegZ + (k-1)*Thickness,
\* the starts strictly ascend and none is above EndZ, and when main is done
\* every start up to EndZ has been processed.
C10_EachSlabOnce ==
  (\A k \in 1..Len(calls) : calls[k].err = "nil") =>
    /\ \A k \in 1..Len(calls) :
         /\ calls[k].z = config.BegZ + (k - 1) * config.Thickness
         /\ calls[k].z <= config.EndZ
         /\ k > 1 => calls[k].z > calls[k - 1].z
    /\ pc = "done" => config.BegZ + Len(calls) * config.Thickness > config.EndZ

====
